---- MODULE Spec2Model ----
(***************************************************************************)
(* Model of 00_Basic/systeminfo.py: a straight-line script that imports    *)
(* sys and prints eleven labelled attributes of the hosting runtime.       *)
(*                                                                         *)
(* Text is a sequence of fragments (strings); the written string is their  *)
(* concatenation.  A line break is the fragment NL, a decimal digit is a   *)
(* fragment of its own, and the colon that ends each label literal is a    *)
(* fragment of its own.  Integers of the runtime are Python longs: a       *)
(* sequence of base-2^15 limbs, most significant first, without leading    *)
(* zero limbs (the empty sequence is 0), so that the platform size limit   *)
(* 2^63-1 is representable and its decimal rendering is computed.          *)
(***************************************************************************)
EXTENDS Integers, Sequences, FiniteSets

VARIABLES pc, stdout, stderr, exit_code, sys, argv, environ, files, clock,
          run, prev_stdout, prev_exit, prev_argv, env_changed

vars == <<pc, stdout, stderr, exit_code, sys, argv, environ, files, clock,
          run, prev_stdout, prev_exit, prev_argv, env_changed>>

\* Number of invocations of the script a behaviour follows.
MaxRuns == 2

NL == "\n"
SP == " "

Digits == <<"0", "1", "2", "3", "4", "5", "6", "7", "8", "9">>

DigitSet == {Digits[i] : i \in 1..10}

\* How many times fragment t occurs in s.
Count(t, s) == Cardinality({i \in 1..Len(s) : s[i] = t})

----------------------------------------------------------------------------
\* Python longs and their decimal rendering (str of an int inside print).

Base == 32768

RECURSIVE StripZeros(_)
StripZeros(ds) ==
  IF ds # <<>> /\ Head(ds) = 0 THEN StripZeros(Tail(ds)) ELSE ds

RECURSIVE ToLong(_)
ToLong(n) == IF n = 0 THEN <<>> ELSE Append(ToLong(n \div Base), n % Base)

\* Long division of the first n limbs by 10: quotient limbs and remainder.
RECURSIVE DivRem10(_, _)
DivRem10(ds, n) ==
  IF n = 0 THEN [q |-> <<>>, r |-> 0]
  ELSE LET p   == DivRem10(ds, n - 1)
           cur == p.r * Base + ds[n]
       IN  [q |-> Append(p.q, cur \div 10), r |-> cur % 10]

Limbs == 0..(Base - 1)

\* The decimal digits of a long, most significant first: divide by ten
\* until nothing is left.
DecDigits[ds \in Seq(Limbs)] ==
  IF ds = <<>> THEN <<>>
  ELSE LET d == DivRem10(ds, Len(ds))
       IN  Append(DecDigits[StripZeros(d.q)], Digits[d.r + 1])

\* A rendering that emits the digits in the order the division yields them.
StrLongReversed(ds) ==
  IF ds = <<>> THEN <<"0">>
  ELSE [i \in 1..Len(DecDigits[ds]) |-> DecDigits[ds][Len(DecDigits[ds]) + 1 - i]]

\* str(n) for a non-negative long n.
StrLong(ds) == IF ds = <<>> THEN <<"0">> ELSE DecDigits[ds]

StrNat(n) == StrLong(ToLong(n))

----------------------------------------------------------------------------
\* repr of the structured values (print applies str, which for a list, a
\* struct sequence and sys.flags is its repr).

\* repr of a str: quoted, with backslashes and line breaks escaped.
RECURSIVE Escape(_)
Escape(s) ==
  IF s = <<>> THEN <<>>
  ELSE (CASE Head(s) = "\\" -> <<"\\", "\\">>
          [] Head(s) = NL   -> <<"\\", "n">>
          [] OTHER          -> <<Head(s)>>) \o Escape(Tail(s))

ReprStr(s) == <<"'">> \o Escape(s) \o <<"'">>

RECURSIVE JoinRepr(_)
JoinRepr(l) ==
  IF l = <<>> THEN <<>>
  ELSE IF Len(l) = 1 THEN ReprStr(l[1])
  ELSE ReprStr(l[1]) \o <<",", SP>> \o JoinRepr(Tail(l))

ReprList(l) == <<"[">> \o JoinRepr(l) \o <<"]">>

ReprVersionInfo(v) ==
  <<"sys.version_info(", "major=">> \o StrNat(v.major)
    \o <<",", SP, "minor=">> \o StrNat(v.minor)
    \o <<",", SP, "micro=">> \o StrNat(v.micro)
    \o <<",", SP, "releaselevel=">> \o ReprStr(<<v.releaselevel>>)
    \o <<",", SP, "serial=">> \o StrNat(v.serial) \o <<")">>

ReprFlags(f) ==
  <<"sys.flags(", "debug=">> \o StrNat(f.debug)
    \o <<",", SP, "optimize=">> \o StrNat(f.optimize) \o <<")">>

----------------------------------------------------------------------------
\* The hosting runtime: the values the sys module can hold.

LevelCode(l) ==
  CASE l = "alpha" -> 10 [] l = "beta" -> 11 [] l = "candidate" -> 12
    [] l = "final" -> 15

LevelTag(l) ==
  CASE l = "alpha" -> <<"a">> [] l = "beta" -> <<"b">>
    [] l = "candidate" -> <<"r", "c">> [] l = "final" -> <<>>

\* PY_VERSION_HEX of the runtime's version tuple.
HexVersion(v) ==
  v.major * 16777216 + v.minor * 65536 + v.micro * 256
    + LevelCode(v.releaselevel) * 16 + v.serial

\* sys.version: the dotted version, the build and the compiler; some builds
\* put a line break before the compiler.
VersionText(v, brk) ==
  StrNat(v.major) \o <<".">> \o StrNat(v.minor) \o <<".">> \o StrNat(v.micro)
    \o LevelTag(v.releaselevel)
    \o (IF v.releaselevel = "final" THEN <<>> ELSE StrNat(v.serial))
    \o <<SP, "(main)", SP>> \o (IF brk THEN <<NL>> ELSE <<>>) \o <<"[GCC]">>

MaxSize64 == <<7, 32767, 32767, 32767, 32767>>

MaxSize32 == <<1, 32767, 32767>>

\* The runtimes a behaviour may start in: a 64-bit little-endian and a
\* 64-bit big-endian Unix build, a 32-bit Windows build and a pre-release.
Hosts ==
  { [platform |-> <<"linux">>, executable |-> <<"/usr/bin/python3">>,
     byteorder |-> <<"little">>, maxsize |-> MaxSize64,
     prefix |-> <<"/usr/lib/python3">>, compiler_break |-> FALSE,
     version_info |-> [major |-> 3, minor |-> 11, micro |-> 6,
                       releaselevel |-> "final", serial |-> 0]],
    [platform |-> <<"linux">>, executable |-> <<"/usr/bin/python3">>,
     byteorder |-> <<"big">>, maxsize |-> MaxSize64,
     prefix |-> <<"/usr/lib/python3">>, compiler_break |-> TRUE,
     version_info |-> [major |-> 3, minor |-> 8, micro |-> 10,
                       releaselevel |-> "final", serial |-> 0]],
    [platform |-> <<"win32">>, executable |-> <<"C:", "\\", "python.exe">>,
     byteorder |-> <<"little">>, maxsize |-> MaxSize32,
     prefix |-> <<"C:", "\\", "Lib">>, compiler_break |-> FALSE,
     version_info |-> [major |-> 3, minor |-> 8, micro |-> 10,
                       releaselevel |-> "final", serial |-> 0]],
    [platform |-> <<"linux">>, executable |-> <<"/usr/bin/python3">>,
     byteorder |-> <<"little">>, maxsize |-> MaxSize64,
     prefix |-> <<"/usr/lib/python3">>, compiler_break |-> TRUE,
     version_info |-> [major |-> 3, minor |-> 13, micro |-> 0,
                       releaselevel |-> "beta", serial |-> 2]] }

FlagValues == { [debug |-> 0, optimize |-> 0], [debug |-> 0, optimize |-> 2] }

Copyrights ==
  { <<"Copyright (c) Python Software Foundation.", NL, "All Rights Reserved.">>,
    <<"Copyright (c) IronPython Team">> }

\* Values of the PYTHONPATH environment variable (a list of directories).
PythonPaths == { <<>>, << <<"/opt/lib">> >> }

ScriptDir == <<"00_Basic">>

\* sys.path as the runtime builds it at start-up.
SysPath(host, pythonpath) == <<ScriptDir>> \o pythonpath \o <<host.prefix>>

\* The table with lines 9 and 11 reading each other's attribute.
AttrNamesSwapped ==
  <<"version", "platform", "executable", "byteorder", "maxsize", "path",
    "version_info", "hexversion", "flags", "api_version", "copyright">>

AttrNames ==
  <<"version", "platform", "executable", "byteorder", "maxsize", "path",
    "version_info", "api_version", "flags", "hexversion", "copyright">>

AttrSet == {AttrNames[i] : i \in 1..Len(AttrNames)}

FullSys(host, fl, cr, pythonpath) ==
  [version      |-> VersionText(host.version_info, host.compiler_break),
   platform     |-> host.platform,
   executable   |-> host.executable,
   byteorder    |-> host.byteorder,
   maxsize      |-> host.maxsize,
   path         |-> SysPath(host, pythonpath),
   version_info |-> host.version_info,
   api_version  |-> ToLong(1013),
   flags        |-> fl,
   hexversion   |-> ToLong(HexVersion(host.version_info)),
   copyright    |-> cr,
   prefix       |-> host.prefix]

\* The module sys without the attributes in miss.
Without(full, miss) == [a \in (DOMAIN full) \ miss |-> full[a]]

ScriptName == "systeminfo.py"

Argvs == { <<ScriptName>>, <<ScriptName, "--verbose", "x">> }

----------------------------------------------------------------------------
\* The script.

\* The first argument of each print call (lines 2-12): a string literal.
Labels ==
  << <<"Python version", ":">>, <<"Platform", ":">>, <<"Executable", ":">>,
     <<"Byte order", ":">>, <<"Max size of an integer", ":">>, <<"Path", ":">>,
     <<"Version info", ":">>, <<"API version", ":">>, <<"Flags", ":">>,
     <<"Hex version", ":">>, <<"Copyright", ":">> >>

NumPrints == Len(Labels)

FirstLine == 1

\* Source line of the k-th print call, and the line after line l.
LineOf(k) == k + 1

NextLine(l) == l + 1

EndOfFile == LineOf(NumPrints) + 1

\* str(x) with the byte order upper-cased on the way.
StrValueUpper(a, x) ==
  CASE a \in {"version", "platform", "executable", "copyright"} -> x
    [] a = "byteorder" -> IF x = <<"little">> THEN <<"LITTLE">> ELSE <<"BIG">>
    [] a \in {"maxsize", "api_version", "hexversion"} -> StrLong(x)
    [] a = "path" -> ReprList(x)
    [] a = "version_info" -> ReprVersionInfo(x)
    [] a = "flags" -> ReprFlags(x)

\* str(x) of the value of attribute a, as print applies it.
StrValue(a, x) ==
  CASE a \in {"version", "platform", "executable", "byteorder", "copyright"} -> x
    [] a \in {"maxsize", "api_version", "hexversion"} -> StrLong(x)
    [] a = "path" -> ReprList(x)
    [] a = "version_info" -> ReprVersionInfo(x)
    [] a = "flags" -> ReprFlags(x)

\* print with end="".
PrintTextNoBreak(label, text) == label \o <<SP>> \o text

\* What print(label, x) writes: the arguments' str joined by one space, then
\* a line break.
PrintText(label, text) == label \o <<SP>> \o text \o <<NL>>

\* Line 9 printing the time of the run in place of its attribute.
ArgClock(k) ==
  IF k = 8 THEN StrNat(clock) ELSE StrValue(AttrNames[k], sys[AttrNames[k]])

\* Line 4 printing the argument list in place of its attribute.
ArgArgv(k) ==
  IF k = 3 THEN ReprList([i \in 1..Len(argv) |-> <<argv[i]>>])
  ELSE StrValue(AttrNames[k], sys[AttrNames[k]])

\* Line 11 printing the attribute of line 9, copied with its line.
ArgCopied(k) ==
  IF k = 10 THEN StrValue("api_version", sys["api_version"])
  ELSE StrValue(AttrNames[k], sys[AttrNames[k]])

\* The second argument of the k-th print call: the attribute it reads.
Arg(k) == StrValue(AttrNames[k], sys[AttrNames[k]])

Running == exit_code = <<>>

TypeOK ==
  /\ pc \in FirstLine..EndOfFile
  /\ exit_code \in {<<>>, <<0>>, <<1>>}
  /\ run \in 1..MaxRuns
  /\ argv \in Argvs
  /\ env_changed \in BOOLEAN

Init ==
  /\ pc = FirstLine
  /\ stdout = <<>>
  /\ stderr = <<>>
  /\ exit_code = <<>>
  /\ environ \in [PYTHONPATH : PythonPaths]
  /\ \E host \in Hosts, fl \in FlagValues, cr \in Copyrights,
        miss \in {{}} \cup {{a} : a \in AttrSet} :
       sys = Without(FullSys(host, fl, cr, environ.PYTHONPATH), miss)
  /\ argv = <<ScriptName>>
  /\ files = {}
  /\ clock = 0
  /\ run = 1
  /\ prev_stdout = <<>>
  /\ prev_exit = <<>>
  /\ prev_argv = <<>>
  /\ env_changed = FALSE

\* Line 1: import sys.
Import ==
  /\ Running
  /\ pc = FirstLine
  /\ pc' = NextLine(pc)
  /\ UNCHANGED <<stdout, stderr, exit_code, sys, argv, environ, files, clock,
                 run, prev_stdout, prev_exit, prev_argv, env_changed>>

\* A print of sys.path that pops the entry it prints.
PrintAttrPop(k) ==
  /\ exit_code = <<>>
  /\ pc = k + 1
  /\ AttrNames[k] \in DOMAIN sys
  /\ stdout' = stdout \o Labels[k] \o <<SP>>
                 \o StrValue(AttrNames[k], sys[AttrNames[k]]) \o <<NL>>
  /\ pc' = pc + 1
  /\ sys' = IF AttrNames[k] = "path"
            THEN [sys EXCEPT !.path = SubSeq(sys.path, 1, Len(sys.path) - 1)]
            ELSE sys
  /\ UNCHANGED <<stderr, exit_code, argv, environ, files, clock,
                 run, prev_stdout, prev_exit, prev_argv, env_changed>>

\* Lines 2-12: print(label, sys.<attribute>), the attribute being there.
PrintAttr(k) ==
  /\ Running
  /\ pc = LineOf(k)
  /\ AttrNames[k] \in DOMAIN sys
  /\ stdout' = stdout \o PrintText(Labels[k], Arg(k))
  /\ pc' = NextLine(pc)
  /\ UNCHANGED <<stderr, exit_code, sys, argv, environ, files, clock,
                 run, prev_stdout, prev_exit, prev_argv, env_changed>>

\* A missing attribute swallowed: nothing is written and the script goes on.
RaiseSwallowed(k) ==
  /\ exit_code = <<>>
  /\ pc = k + 1
  /\ AttrNames[k] \notin DOMAIN sys
  /\ pc' = pc + 1
  /\ UNCHANGED <<stdout, stderr, exit_code, sys, argv, environ, files, clock,
                 run, prev_stdout, prev_exit, prev_argv, env_changed>>

\* Lines 2-12 when the attribute is not there: evaluating the argument
\* raises AttributeError before print is called; nothing handles it, the
\* traceback goes to standard error and the interpreter exits with status 1.
Raise(k) ==
  /\ Running
  /\ pc = LineOf(k)
  /\ AttrNames[k] \notin DOMAIN sys
  /\ stderr' = stderr \o <<"Traceback", NL, "AttributeError", ":", SP,
                           AttrNames[k], NL>>
  /\ exit_code' = <<1>>
  /\ UNCHANGED <<pc, stdout, sys, argv, environ, files, clock,
                 run, prev_stdout, prev_exit, prev_argv, env_changed>>

\* The script ending with sys.exit(1).
FinishFailure ==
  /\ exit_code = <<>>
  /\ pc = 13
  /\ exit_code' = <<1>>
  /\ UNCHANGED <<pc, stdout, stderr, sys, argv, environ, files, clock,
                 run, prev_stdout, prev_exit, prev_argv, env_changed>>

\* Past line 12: the script ends and the interpreter exits with status 0.
Finish ==
  /\ Running
  /\ pc = EndOfFile
  /\ exit_code' = <<0>>
  /\ UNCHANGED <<pc, stdout, stderr, sys, argv, environ, files, clock,
                 run, prev_stdout, prev_exit, prev_argv, env_changed>>

\* The script is run again, in a new process, with some argument list.
Start(args) ==
  /\ ~Running
  /\ run < MaxRuns
  /\ run' = run + 1
  /\ clock' = clock + 1
  /\ prev_stdout' = stdout
  /\ prev_exit' = exit_code
  /\ prev_argv' = argv
  /\ argv' = args
  /\ pc' = FirstLine
  /\ stdout' = <<>>
  /\ stderr' = <<>>
  /\ exit_code' = <<>>
  /\ UNCHANGED files

Rerun(args) ==
  /\ Start(args)
  /\ env_changed' = FALSE
  /\ UNCHANGED <<sys, environ>>

\* The same, after PYTHONPATH was changed: the new process has another
\* sys.path.
RerunChanged(args, pp) ==
  /\ Start(args)
  /\ pp # environ.PYTHONPATH
  /\ env_changed' = TRUE
  /\ environ' = [environ EXCEPT !.PYTHONPATH = pp]
  /\ sys' = IF "path" \in DOMAIN sys
            THEN [sys EXCEPT !.path = SysPath(sys, pp)] ELSE sys

Step == Import \/ (\E k \in 1..NumPrints : PrintAttr(k) \/ Raise(k)) \/ Finish

Next ==
  \/ Import
  \/ \E k \in 1..NumPrints : PrintAttr(k)
  \/ \E k \in 1..NumPrints : Raise(k)
  \/ Finish
  \/ \E args \in Argvs : Rerun(args)
  \/ \E args \in Argvs, pp \in PythonPaths : RerunChanged(args, pp)

Spec == Init /\ [][Next]_vars

\* The interpreter runs the script to its end: a step that can be taken is
\* taken.
FairSpec == Spec /\ WF_vars(Step)

----------------------------------------------------------------------------
\* Vocabulary of the properties.

\* The labels and the attribute each stands for, in the order of the
\* specification's table.
TableLabels ==
  <<"Python version", "Platform", "Executable", "Byte order",
    "Max size of an integer", "Path", "Version info", "API version", "Flags",
    "Hex version", "Copyright">>

TableAttrs ==
  <<"version", "platform", "executable", "byteorder", "maxsize", "path",
    "version_info", "api_version", "flags", "hexversion", "copyright">>

\* The host provides every attribute of the table.
Functioning == \A i \in 1..Len(TableAttrs) : TableAttrs[i] \in DOMAIN sys

Exited == exit_code # <<>>

\* The lines of a text: a line ends at a line break, and what follows the
\* last line break, if anything, is a last line.
BreakAt(s) == {i \in 1..Len(s) : s[i] = NL}

\* Where the n-th line of s starts and where it ends (line break excluded).
LineStart(s, n) ==
  IF n = 1 THEN 1
  ELSE 1 + (CHOOSE p \in BreakAt(s) :
              Cardinality({q \in BreakAt(s) : q < p}) = n - 2)

LineEnd(s, n) ==
  IF n <= Cardinality(BreakAt(s))
  THEN (CHOOSE p \in BreakAt(s) :
          Cardinality({q \in BreakAt(s) : q < p}) = n - 1) - 1
  ELSE Len(s)

NumLines(s) ==
  Cardinality(BreakAt(s)) + (IF s # <<>> /\ s[Len(s)] # NL THEN 1 ELSE 0)

LinesOf(s) == [n \in 1..NumLines(s) |-> SubSeq(s, LineStart(s, n), LineEnd(s, n))]

\* The lines of standard output that begin with "<label>: ", and what
\* follows it on such a line.
LinesWith(label) ==
  LET ls == LinesOf(stdout)
  IN  { i \in 1..Len(ls) :
          Len(ls[i]) >= 3 /\ SubSeq(ls[i], 1, 3) = <<label, ":", SP>> }

ValueAt(i) == LET l == LinesOf(stdout)[i] IN SubSeq(l, 4, Len(l))

\* The pair the table asks of step k: "<Label>: <value>" and a line break.
Pair(k) ==
  <<TableLabels[k], ":", SP>>
    \o StrValue(TableAttrs[k], sys[TableAttrs[k]]) \o <<NL>>

RECURSIVE Pairs(_)
Pairs(n) == IF n = 0 THEN <<>> ELSE Pairs(n - 1) \o Pair(n)

\* Line breaks inside the values that steps 1..n write as they are.
RECURSIVE Breaks(_)
Breaks(n) ==
  IF n = 0 THEN 0
  ELSE Breaks(n - 1)
         + (IF TableAttrs[n] \in
                 {"version", "platform", "executable", "byteorder", "copyright"}
            THEN Count(NL, sys[TableAttrs[n]]) ELSE 0)

\* The long a decimal literal denotes.
DigitValue(d) == CHOOSE i \in 0..9 : Digits[i + 1] = d

RECURSIVE TimesTenPlus(_, _, _)
TimesTenPlus(ds, i, c) ==
  IF i = 0 THEN (IF c = 0 THEN <<>> ELSE <<c>>)
  ELSE LET t == ds[i] * 10 + c
       IN  Append(TimesTenPlus(ds, i - 1, t \div Base), t % Base)

ShiftIn[ds \in Seq(Limbs), d \in 0..9] == TimesTenPlus(ds, Len(ds), d)

ParseDigits[s \in Seq(DigitSet)] ==
  IF s = <<>> THEN <<>>
  ELSE ShiftIn[ParseDigits[SubSeq(s, 1, Len(s) - 1)], DigitValue(s[Len(s)])]

ParseDecimal(s) == ParseDigits[s]

IsDecimalLiteral(s) ==
  /\ s # <<>>
  /\ \A i \in 1..Len(s) : s[i] \in DigitSet
  /\ (Len(s) > 1 => s[1] # "0")

----------------------------------------------------------------------------
\* C1, as stated: once a run on a functioning host has ended, standard
\* output holds exactly eleven lines and the i-th line begins with the i-th
\* label, whatever the values are (line breaks inside them included).
C1_ExactlyElevenLines ==
  (Functioning /\ exit_code = <<0>>) =>
    LET ls == LinesOf(stdout)
    IN  /\ Len(ls) = 11
        /\ \A i \in 1..11 : ls[i][1] = TableLabels[i]

\* C1, amended: once a run on a functioning host has ended, standard output
\* holds eleven labelled pairs and 11 + b lines, b being the number of line
\* breaks inside the string values written as they are; the i-th pair
\* starts on line i + (the line breaks inside the values before it), so
\* there are exactly eleven lines when no value holds a line break.
C1_ElevenPairs ==
  (Functioning /\ exit_code = <<0>>) =>
    LET ls == LinesOf(stdout)
    IN  /\ Len(ls) = 11 + Breaks(11)
        /\ \A i \in 1..11 :
             /\ i + Breaks(i - 1) <= Len(ls)
             /\ ls[i + Breaks(i - 1)][1] = TableLabels[i]
        /\ \A i \in 1..11 : Cardinality(LinesWith(TableLabels[i])) = 1
        /\ (Breaks(11) = 0 => Len(ls) = 11)

C1_Witness ==
  /\ Functioning
  /\ exit_code = <<0>>
  /\ Count(NL, sys.copyright) > 0
  /\ Len(LinesOf(stdout)) > 11

----------------------------------------------------------------------------
\* C2: on a functioning host the steps of a run are, one after another:
\* the import, then for k = 1..11 the step that appends exactly
\* "<Label k>: <value k>" and a line break to an output that holds exactly
\* the pairs 1..k-1, then the exit; each step moves to the next line, so no
\* pair is skipped, repeated or reordered.
C2_ElevenStepsInOrder ==
  [][ (run' = run /\ Functioning) =>
        \/ /\ pc = 1 /\ pc' = 2
           /\ stdout = <<>> /\ stdout' = <<>>
        \/ /\ pc \in 2..12 /\ pc' = pc + 1
           /\ stdout = Pairs(pc - 2)
           /\ stdout' = stdout \o Pair(pc - 1)
        \/ /\ pc = 13 /\ pc' = 13
           /\ stdout = Pairs(11) /\ stdout' = stdout ]_vars

C2_Witness ==
  /\ Functioning
  /\ pc = 13
  /\ stdout = Pairs(11)
  /\ Len(stdout) > 11

\* C3: on a functioning host a run that has not ended leads to the state
\* in which the script is past its last line, each of the eleven labels
\* has been written once and the exit status is 0.
C3_RunsToCompletion ==
  (Functioning /\ ~Exited) ~>
    (/\ exit_code = <<0>>
     /\ pc = 13
     /\ \A i \in 1..11 : Count(TableLabels[i], stdout) = 1)

C3_Witness ==
  /\ Functioning
  /\ exit_code = <<0>>
  /\ pc = 13
  /\ \A i \in 1..11 : Count(TableLabels[i], stdout) = 1

\* C4: a run that has ended, started with the arguments of the run before
\* it and with no change of the environment in between, has written the
\* text the run before it wrote, although the clock has moved on.
C4_SameOutputTwice ==
  (Exited /\ run > 1 /\ ~env_changed /\ argv = prev_argv) =>
    stdout = prev_stdout

C4_Witness ==
  /\ Exited /\ run > 1 /\ ~env_changed /\ argv = prev_argv
  /\ Functioning
  /\ clock > 0
  /\ stdout = Pairs(11)

\* C5: a run that has ended, started with another argument list than the
\* run before it and in the same environment, has written the same text
\* and has the same exit status as the run before it.
C5_ArgumentsIgnored ==
  (Exited /\ run > 1 /\ ~env_changed /\ argv # prev_argv) =>
    (stdout = prev_stdout /\ exit_code = prev_exit)

C5_Witness ==
  /\ Exited /\ run > 1 /\ ~env_changed
  /\ Len(argv) > 1 /\ Len(prev_argv) = 1
  /\ Functioning
  /\ stdout = Pairs(11)

\* C6: once line 5 has run there is one "Byte order" line, and the value on
\* any such line is little or big and is sys.byteorder as it is.
C6_ByteOrderValue ==
  /\ \A i \in LinesWith("Byte order") :
       /\ ValueAt(i) \in {<<"little">>, <<"big">>}
       /\ ValueAt(i) = sys.byteorder
  /\ (pc > 5 => Cardinality(LinesWith("Byte order")) = 1)

C6_Witness ==
  /\ pc > 5
  /\ \E i \in LinesWith("Byte order") : ValueAt(i) = <<"big">>

\* C7: once line 6 has run there is one "Max size of an integer" line, and
\* the value on any such line is a decimal literal without sign, separator
\* or leading zero that denotes sys.maxsize, a number greater than zero.
C7_MaxSizeLiteral ==
  /\ \A i \in LinesWith("Max size of an integer") :
       /\ IsDecimalLiteral(ValueAt(i))
       /\ ParseDecimal(ValueAt(i)) = sys.maxsize
       /\ ParseDecimal(ValueAt(i)) # <<>>
  /\ (pc > 6 => Cardinality(LinesWith("Max size of an integer")) = 1)

C7_Witness ==
  /\ pc > 6
  /\ \E i \in LinesWith("Max size of an integer") :
       Len(ValueAt(i)) = 19 /\ sys.maxsize = MaxSize64

\* C8: a step of the script leaves the module sys, the environment
\* variables and the files as they are, and only appends to standard output.
C8_OnlyAppendsToStdout ==
  [][ run' = run =>
        /\ sys' = sys
        /\ environ' = environ
        /\ files' = files
        /\ Len(stdout') >= Len(stdout)
        /\ SubSeq(stdout', 1, Len(stdout)) = stdout ]_vars

C8_Witness ==
  /\ Exited
  /\ stdout # <<>>
  /\ "path" \in DOMAIN sys
  /\ Len(sys.path) > 2

\* C9: when the attribute of step k is missing, the run never gets past
\* line k + 1 and writes nothing but the pairs of the steps before k; once
\* it has ended, its exit status is 1, it stopped at step k, and standard
\* output holds exactly the pairs 1..k-1.
C9_StopsAtMissingAttribute ==
  \A k \in 1..11 :
    TableAttrs[k] \notin DOMAIN sys =>
      /\ pc <= k + 1
      /\ pc >= 2 => stdout = Pairs(pc - 2)
      /\ Exited => (exit_code = <<1>> /\ pc = k + 1 /\ stdout = Pairs(k - 1))

C9_Witness ==
  /\ "path" \notin DOMAIN sys
  /\ exit_code = <<1>>
  /\ stdout = Pairs(5)
  /\ stderr # <<>>

\* The packed version number of a version tuple.
Packed(v) ==
  v.major * (2 ^ 24) + v.minor * (2 ^ 16) + v.micro * (2 ^ 8)
    + (CASE v.releaselevel = "alpha" -> 10 [] v.releaselevel = "beta" -> 11
         [] v.releaselevel = "candidate" -> 12 [] v.releaselevel = "final" -> 15)
        * (2 ^ 4)
    + v.serial

\* C10: once line 11 has run, the "Version info" line shows a version tuple
\* v and the "Hex version" line shows, as a decimal literal, the number
\* major*2^24 + minor*2^16 + micro*2^8 + level*2^4 + serial of that v, which
\* is below 2^32.
C10_HexVersionEncodesVersionInfo ==
  pc > 11 =>
    \E v \in {h.version_info : h \in Hosts} :
      /\ \E i \in LinesWith("Version info") : ValueAt(i) = ReprVersionInfo(v)
      /\ \E i \in LinesWith("Hex version") :
           /\ IsDecimalLiteral(ValueAt(i))
           /\ ParseDecimal(ValueAt(i)) = ToLong(Packed(v))
      /\ Packed(v) \div (2 ^ 16) < 2 ^ 16

C10_Witness ==
  /\ pc > 11
  /\ sys.version_info.releaselevel = "beta"
  /\ \E i \in LinesWith("Hex version") :
       ParseDecimal(ValueAt(i)) = ToLong(51183794)

====
